---- MODULE Spec2Model ----
(***************************************************************************)
(* Model of the Elasticsearch bulk logger `Logger` (src/unnamed/part_000)  *)
(* and of its predecessor `Logging` (src/index.ts), each under its own     *)
(* specification: Spec and SpecLogging.                                    *)
(*                                                                         *)
(* JavaScript runs one task at a time.  A task (a call made by the user, a *)
(* timer callback, the arrival of an HTTP response) runs to its end, and   *)
(* promise reactions queued meanwhile run afterwards in FIFO order         *)
(* (`microtasks`).  A timer or an HTTP response is only dispatched when    *)
(* the microtask queue is empty.  The user's own code may run between two  *)
(* reactions that one of the user's calls queued (it may itself be a       *)
(* promise reaction of that task), but not between the reactions that      *)
(* follow an HTTP response to createIndex: the user holds no promise that  *)
(* settles in that task.                                                   *)
(***************************************************************************)
EXTENDS Integers, Sequences, FiniteSets, Bags, TLC

\* ------------------------------------------------------------- bounds
\* A configuration without index splitting has no clock and no timer, so
\* more calls are explored there than in a configuration that splits.
MaxLogs == 3          \* log calls made by the user (no index splitting)
MaxSplitLogs == 2     \* log calls made by the user (index splitting)
MaxFlush == 2         \* flush calls made by the user
MaxInit == 2          \* initialize calls made by the user (no index splitting)
MaxSplitInit == 1     \* initialize calls made by the user (index splitting)
MaxTime == 4          \* the clock (Date.now()) runs from 0 to MaxTime
MaxLiveLogs == 2      \* log calls made by the user under SpecLive
MaxLiveFlush == 2     \* flush calls made by the user under SpecLive
MaxLiveInit == 1      \* initialize calls made by the user under SpecLive
MaxLiveTime == 3      \* under SpecLive the clock runs from 0 to MaxLiveTime
MaxLoggingLogs == 2   \* Logging: log calls made by the user
MaxPush == 4          \* Logging: calls of elasticPush, the constructor's included
MaxSignals == 2       \* Logging: SIGINT / SIGTERM signals received
MaxLoggingTime == 3   \* Logging: the clock runs from 0 to MaxLoggingTime

\* ------------------------------------------------------------- inputs
Bases == {"a"}                          \* base index names given to log
NoProps == "undefined"                  \* `properties` argument left out
PropsArgs == {NoProps, "props"}
Types == {"doc"}                        \* `type` argument (default "doc")
SplitIntervals == {0, 2}                \* config.indexSplitInterval (clock units)
VersionStrings == {"6.8.23", "7.17.0", "unknown"}
InfoResponses == [status : {200}, number : VersionStrings]
                   \cup {[status |-> 503, number |-> "7.17.0"],
                         [status |-> 0, number |-> "unknown"]}   \* 0: transport error
ProvisionStatuses == {200, 404, 500, 0}  \* 0: transport error / timeout
BulkResponses == [status : {200, 500}, errors : {"true", "false", "absent"}]
                   \cup {[status |-> 0, errors |-> "absent"]}

CleanUpIntervals == {2}                  \* Logging.cleanUpInterval (clock units)
Mappings == {NoProps, "mappings"}        \* Logging.log: `mappings` argument

Undefined == <<>>                        \* JavaScript `undefined` for esVersion

VARIABLES
    now,                  \* Date.now()
    indexSplitInterval,   \* Logger.indexSplitInterval
    esVersion,            \* Logger.esVersion: Undefined or <<major, minor, patch>>
    inits,                \* initialize() calls: the promise returned ("inflight" |
                          \* "ok" | "failed") and the response that settled it
    dying,                \* Logger.dying
    autoFlushTID,         \* Logger.autoFlushTID: "undefined" | "armed" | "cleared"
    cleanUpTID,           \* Logger.cleanUpTID:   "undefined" | "armed" | "cleared"
    cleanUpDue,           \* time at which the cleanUp timer is due
    bulks,                \* heap of ESBulk objects, addressed by position
    indexBulks,           \* Logger.indexBulks: index name -> ESBulk object
    nonEmptyBulks,        \* Logger.nonEmptyBulks
    pendingMessages,      \* Logger.pendingMessages
    createIndexPromises,  \* Logger.createIndexPromises: index name -> promise
    promises,             \* heap of the promises made by createIndex (createAfter:
                          \* the answer to the GET after which the PUT was sent)
    microtasks,           \* queue of promise reactions ready to run
    sent,                 \* bulk transmissions issued (POST /_bulk)
    rounds,               \* one entry per call of flush(): its returned promise
    calls,                \* one entry per call of log()
    closePc,              \* close(): "idle" | "polling" | "flushing" | "done" | "failed"
    errorChannel,         \* bag of handleError() calls
    hist                  \* the user's latest calls made back to back

VARIABLES
    loggingDying,         \* Logging.dying
    cleanUpInterval,      \* Logging.cleanUpInterval
    indexes,              \* Logging.indexes: index name -> ESIndex object
    esindexes,            \* heap of ESIndex objects, addressed by position
    todo,                 \* Logging.todo: ESIndex objects, in push order
    bulkTID,              \* Logging.bulkTID: the handle set last (0: undefined);
                          \* the handle of a timer is the number of the round
                          \* of elasticPush that armed it
    pushTimers,           \* handles of the elasticPush timers that are armed
    cleanDue,             \* time at which the cleanUp timer (cleanTID) is due
    loggingTasks,         \* Logging: queue of promise reactions ready to run
    creations,            \* Logging: calls of createIndex and their request
    posted,               \* Logging: bulk transmissions issued (POST /_bulk)
    pushes,               \* Logging: one entry per call of elasticPush
    loggingLogs,          \* Logging: number of log calls made by the user
    loggingErrors         \* Logging: number of handleError calls

loggingVars == <<loggingDying, cleanUpInterval, indexes, esindexes, todo, bulkTID,
                 pushTimers, cleanDue, loggingTasks, creations, posted, pushes,
                 loggingLogs, loggingErrors>>

vars == <<loggingVars, now, indexSplitInterval, esVersion, inits, dying, autoFlushTID,
          cleanUpTID, cleanUpDue, bulks, indexBulks, nonEmptyBulks,
          pendingMessages, createIndexPromises, promises, microtasks, sent,
          rounds, calls, closePc, errorChannel, hist>>

\* ------------------------------------------------------------ helpers
\* a delete that leaves the entry in place
Remove_Nothing(f, k) == f

Remove(f, k) == [x \in DOMAIN f \ {k} |-> f[x]]
Put(f, k, v) == (k :> v) @@ f

\* the user's log and flush calls made back to back, the latest three
Trail(e) == LET h == Append(hist, e) IN IF Len(h) > 3 THEN Tail(h) ELSE h

\* handleError(e)
HandleError(kind, ref) == errorChannel (+) SetToBag({<<kind, ref>>})

\* a parser that makes a version of any string
ParseVersion_Lenient(s) ==
    CASE s = "6.8.23" -> <<6, 8, 23>>
      [] s = "7.17.0" -> <<7, 17, 0>>
      [] OTHER -> <<0, 0, 0>>

\* /^(\d+)\.(\d+)\.(\d+)/.exec(info.version.number)
ParseVersion(s) ==
    CASE s = "6.8.23" -> <<6, 8, 23>>
      [] s = "7.17.0" -> <<7, 17, 0>>
      [] OTHER -> Undefined

\* elasticIndexWithSufix(baseIndex)
ElasticIndexWithSufix(base) ==
    IF indexSplitInterval = 0 THEN <<base>>
    ELSE <<base, now \div indexSplitInterval>>

\* +/\d+$/.exec(index)![0]
SuffixOf(index) == index[Len(index)]

\* the object literal of resolveESBulk
NewBulk(obsolete) == [bulk |-> <<>>, bulkSize |-> 0, obsolete |-> obsolete]

\* resolveESBulk's default for `obsolete`
DefaultObsolete == now + 2 * indexSplitInterval

\* an obsolete time computed from the bucket before the one of the suffix
ExistingObsolete_BucketBefore(index) ==
    IF indexSplitInterval > 0 THEN (SuffixOf(index) - 1) * indexSplitInterval
    ELSE DefaultObsolete

\* resolveESBulk's argument when the index exists on the server
ExistingObsolete(index) ==
    IF indexSplitInterval > 0 THEN SuffixOf(index) * indexSplitInterval
    ELSE DefaultObsolete

\* the two lines addToBulk appends
ActionLine(index, type) ==
    IF esVersion[1] >= 7 THEN <<"index", index>> ELSE <<"index", index, type>>
BodyLine(message) == <<"doc", message>>

\* an addToBulk that puts the two lines in front of the buffer
AddToBulk_Prepend(b, index, message, type) ==
    [b EXCEPT !.bulk = <<ActionLine(index, type), BodyLine(message)>> \o @,
              !.bulkSize = @ + 1]

\* addToBulk(index, b, message, type): the ESBulk object after the call
AddToBulk(b, index, message, type) ==
    [b EXCEPT !.bulk = @ \o <<ActionLine(index, type), BodyLine(message)>>,
              !.bulkSize = @ + 1]

\* variant of ClearBulk that resets the record count and keeps the lines
ClearBulk_KeepsLines(b) == [b EXCEPT !.bulkSize = 0]

\* variant of ClearBulk that forgets to reset the record count
ClearBulk_KeepsSize(b) == [b EXCEPT !.bulk = <<>>]

\* flush: b.bulk = ''; b.bulkSize = 0
ClearBulk(b) == [b EXCEPT !.bulk = <<>>, !.bulkSize = 0]

\* variant of LogIgnored without the `if (this.dying) return`
LogIgnored_NoDyingCheck == esVersion = Undefined

\* log: the early returns
LogIgnored == dying \/ esVersion = Undefined

\* variant of HasPromise that never finds the promise in flight
HasPromise_Never(index) == FALSE

\* createIndex: this.createIndexPromises.has(index)
HasPromise(index) == index \in DOMAIN createIndexPromises

\* variant of CloseWaits that does not wait
CloseWaits_Never == FALSE

\* close: the condition of the polling loop
CloseWaits == pendingMessages > 0

\* flush: the rejection test applied to a bulk response
BulkRejects(r) == r.status # 200 \/ r.errors = "true"

\* autoFlush: arms the interval only when the handle is null
AutoFlush(tid) == IF tid = "null" THEN "armed" ELSE tid

\* flush: the indexes for which a transmission is issued
FlushTargets ==
    {i \in nonEmptyBulks : i \in DOMAIN indexBulks /\ bulks[indexBulks[i]].bulkSize > 0}

Job(kind, p, c) == [job |-> kind, p |-> p, c |-> c]

\* a reaction of log that leaves the counter as it is
Decrement_Skipped(n) == n

\* log: this.pendingMessages-- in the .then and in the .catch reaction
Decrement(n) == n - 1

\* a clearTimeout that leaves the timer armed
ClearTimeout_Keeps(tid) == tid

\* close: clearTimeout(tid)
ClearTimeout(tid) == "cleared"

\* a settlement that reaches only the first log call that waits for it
SettleJobs_FirstOnly(p, reactions) ==
    <<Job("catchThen", p, 0)>> \o
        [k \in 1..(IF reactions = <<>> THEN 0 ELSE 1) |-> Job("logThen", p, reactions[k])]

\* the reactions queued when the promise of createIndex settles: the
\* .catch(...) that createIndex registered on it, then the .then(...) of every
\* log call that received the promise, in the order of the calls
SettleJobs(p, reactions) ==
    <<Job("catchThen", p, 0)>> \o
        [k \in 1..Len(reactions) |-> Job("logThen", p, reactions[k])]

\* createIndex: a create call is sent for any answer but 200
MappingMissing_AnyOther(status) == status # 200

\* createIndex: r.statusCode === 404 in the answer to GET <index>/_mapping
MappingMissing(status) == status = 404

\* the user's code can run: no reaction is queued, or the queued reactions
\* come from a log call of the user (a createIndex that sent no request)
InUserTask ==
    IF microtasks = <<>> THEN TRUE
    ELSE promises[Head(microtasks).p].issued = <<>>

\* --------------------------------------------------------------- Init
\* new Logging(server): elasticPush() found todo empty, its promise is
\* resolved and the reaction that arms the first timer is queued; cleanUp()
\* armed its timer and found nothing to delete
LoggingInit ==
    /\ loggingDying = FALSE
    /\ cleanUpInterval \in CleanUpIntervals
    /\ indexes = <<>>
    /\ esindexes = <<>>
    /\ todo = <<>>
    /\ bulkTID = 0
    /\ pushTimers = {}
    /\ cleanDue = cleanUpInterval
    /\ loggingTasks = <<[job |-> "arm", round |-> 1]>>
    /\ creations = <<>>
    /\ posted = {}
    /\ pushes = <<[origin |-> "constructor", state |-> "resolved", size |-> 0]>>
    /\ loggingLogs = 0
    /\ loggingErrors = 0

Init ==
    /\ now = 0
    /\ indexSplitInterval \in SplitIntervals
    /\ esVersion = Undefined
    /\ inits = <<>>
    /\ dying = FALSE
    /\ autoFlushTID = AutoFlush("undefined")
    /\ cleanUpTID = IF indexSplitInterval > 0 THEN "armed" ELSE "undefined"
    /\ cleanUpDue = indexSplitInterval
    /\ bulks = <<>>
    /\ indexBulks = <<>>
    /\ nonEmptyBulks = {}
    /\ pendingMessages = 0
    /\ createIndexPromises = <<>>
    /\ promises = <<>>
    /\ microtasks = <<>>
    /\ sent = {}
    /\ rounds = <<>>
    /\ calls = <<>>
    /\ closePc = "idle"
    /\ errorChannel = EmptyBag
    /\ hist = <<>>
    /\ LoggingInit

\* ---------------------------------------------------------- the user
\* initialize(): sends GET / to the server
Initialize ==
    /\ InUserTask
    /\ Len(inits) < (IF indexSplitInterval = 0 THEN MaxInit ELSE MaxSplitInit)
    /\ inits' = Append(inits, [state |-> "inflight", resp |-> "none"])
    /\ hist' = <<>>
    /\ UNCHANGED loggingVars
    /\ UNCHANGED <<now, indexSplitInterval, esVersion, dying, autoFlushTID,
                   cleanUpTID, cleanUpDue, bulks, indexBulks, nonEmptyBulks,
                   pendingMessages, createIndexPromises, promises, microtasks,
                   sent, rounds, calls, closePc, errorChannel>>

\* log(index, message, properties, type); the message is the call's number
Log(base, props, type) ==
    /\ InUserTask
    /\ Len(calls) < (IF indexSplitInterval = 0 THEN MaxLogs ELSE MaxSplitLogs)
    /\ LET c == Len(calls) + 1
           index == ElasticIndexWithSufix(base)
           call(i, st, p) == [base |-> base, index |-> i, type |-> type,
                              props |-> props, status |-> st, p |-> p]
       IN
       IF LogIgnored THEN
           /\ calls' = Append(calls, call(<<>>, "ignored", 0))
           /\ errorChannel' = IF dying THEN errorChannel
                              ELSE HandleError("NotInitialized", c)
           /\ UNCHANGED <<bulks, indexBulks, nonEmptyBulks, pendingMessages,
                          createIndexPromises, promises, microtasks>>
       ELSE IF index \in DOMAIN indexBulks THEN
           \* the bulk exists: addToBulk at once
           /\ calls' = Append(calls, call(index, "appended", 0))
           /\ nonEmptyBulks' = nonEmptyBulks \cup {index}
           /\ bulks' = [bulks EXCEPT ![indexBulks[index]] = AddToBulk(@, index, c, type)]
           /\ UNCHANGED <<indexBulks, pendingMessages, createIndexPromises,
                          promises, microtasks, errorChannel>>
       ELSE
           \* pendingMessages++; createIndex(index, type, properties).then(...)
           /\ pendingMessages' = pendingMessages + 1
           /\ UNCHANGED <<nonEmptyBulks, errorChannel>>
           /\ IF HasPromise(index) THEN
                  LET p == createIndexPromises[index] IN
                  /\ calls' = Append(calls, call(index, "awaiting", p))
                  /\ IF promises[p].state = "pending"
                     THEN /\ promises' = [promises EXCEPT ![p].reactions = Append(@, c)]
                          /\ UNCHANGED microtasks
                     ELSE /\ microtasks' = Append(microtasks, Job("logThen", p, c))
                          /\ UNCHANGED promises
                  /\ UNCHANGED <<bulks, indexBulks, createIndexPromises>>
              ELSE
                  LET p == Len(promises) + 1
                      b == Len(bulks) + 1
                  IN
                  /\ calls' = Append(calls, call(index, "awaiting", p))
                  /\ createIndexPromises' = Put(createIndexPromises, index, p)
                  /\ IF props = NoProps THEN
                         \* resolveESBulk() runs inside createIndex
                         /\ bulks' = Append(bulks, NewBulk(DefaultObsolete))
                         /\ indexBulks' = Put(indexBulks, index, b)
                         /\ promises' = Append(promises,
                                [index |-> index, type |-> type, state |-> "fulfilled",
                                 settling |-> "fulfilled", value |-> b,
                                 req |-> "none", issued |-> <<>>, createAfter |-> <<>>,
                                 reactions |-> <<>>])
                         /\ microtasks' = microtasks \o
                                <<Job("catchThen", p, 0), Job("logThen", p, c)>>
                     ELSE
                         \* GET <index>/_mapping is sent
                         /\ promises' = Append(promises,
                                [index |-> index, type |-> type, state |-> "pending",
                                 settling |-> "pending", value |-> 0,
                                 req |-> "GET", issued |-> <<"GET">>,
                                 createAfter |-> <<>>,
                                 reactions |-> <<c>>])
                         /\ UNCHANGED <<bulks, indexBulks, microtasks>>
    /\ hist' = Trail(<<"log", Len(calls) + 1>>)
    /\ UNCHANGED loggingVars
    /\ UNCHANGED <<now, indexSplitInterval, esVersion, inits, dying, autoFlushTID,
                   cleanUpTID, cleanUpDue, sent, rounds, closePc>>

\* flush(): what it does to the bulks, the transmissions and its promise
DoFlush(origin) ==
    LET r == Len(rounds) + 1
        targets == IF nonEmptyBulks = {} THEN {} ELSE FlushTargets
    IN
    /\ sent' = sent \cup {[round |-> r, index |-> i,
                           payload |-> bulks[indexBulks[i]].bulk,
                           status |-> "inflight"] : i \in targets}
    /\ bulks' = [k \in DOMAIN bulks |->
                    IF \E i \in targets : indexBulks[i] = k
                    THEN ClearBulk(bulks[k]) ELSE bulks[k]]
    /\ nonEmptyBulks' = {}
    /\ rounds' = Append(rounds,
            [origin |-> origin,
             state |-> IF targets = {} THEN "resolved" ELSE "pending",
             size |-> Cardinality(targets),
             pendingAtStart |-> IF origin = "close" THEN pendingMessages ELSE 0])

Flush ==
    /\ InUserTask
    /\ Cardinality({r \in DOMAIN rounds : rounds[r].origin = "user"}) < MaxFlush
    /\ DoFlush("user")
    /\ hist' = Trail(<<"flush", Len(rounds) + 1>>)
    /\ UNCHANGED loggingVars
    /\ UNCHANGED <<now, indexSplitInterval, esVersion, inits, dying, autoFlushTID,
                   cleanUpTID, cleanUpDue, indexBulks, pendingMessages,
                   createIndexPromises, promises, microtasks, calls, closePc,
                   errorChannel>>

\* close(): `return this.flush()`; close settles as that promise does
CloseFlush ==
    /\ DoFlush("close")
    /\ closePc' = IF FlushTargets = {} THEN "done" ELSE "flushing"

\* close(), up to its first await (or to its end when nothing is pending)
Close ==
    /\ InUserTask
    /\ closePc = "idle"
    /\ dying' = TRUE
    /\ autoFlushTID' = ClearTimeout(autoFlushTID)
    /\ cleanUpTID' = ClearTimeout(cleanUpTID)
    /\ IF CloseWaits
       THEN /\ closePc' = "polling"
            /\ UNCHANGED <<bulks, nonEmptyBulks, sent, rounds>>
       ELSE CloseFlush
    /\ hist' = <<>>
    /\ UNCHANGED loggingVars
    /\ UNCHANGED <<now, indexSplitInterval, esVersion, inits, cleanUpDue,
                   indexBulks, pendingMessages, createIndexPromises, promises,
                   microtasks, calls, errorChannel>>

\* ------------------------------------------------- promise reactions
\* the reaction at the head of the microtask queue runs
RunMicrotask ==
    /\ microtasks # <<>>
    /\ LET j == Head(microtasks)
           rest == Tail(microtasks)
           p == j.p
           c == j.c
           P == promises[p]
       IN
       CASE j.job = "settle" ->
            \* the promise of createIndex settles: its reactions are queued in
            \* the order they were registered, the one of createIndex first
            /\ promises' = [promises EXCEPT ![p].state = P.settling,
                                            ![p].reactions = <<>>]
            /\ microtasks' = rest \o SettleJobs(p, P.reactions)
            /\ UNCHANGED <<bulks, nonEmptyBulks, pendingMessages,
                           createIndexPromises, calls, errorChannel>>
         [] j.job = "catchThen" ->
            \* promise.catch(() => Promise.resolve()): a fulfilled promise passes
            \* through; a rejected one runs the handler, whose returned promise
            \* is adopted two reactions later
            /\ microtasks' = Append(rest,
                   Job(IF P.state = "fulfilled" THEN "delete" ELSE "adopt", p, 0))
            /\ UNCHANGED <<bulks, nonEmptyBulks, pendingMessages,
                           createIndexPromises, promises, calls, errorChannel>>
         [] j.job = "adopt" ->
            /\ microtasks' = Append(rest, Job("adopted", p, 0))
            /\ UNCHANGED <<bulks, nonEmptyBulks, pendingMessages,
                           createIndexPromises, promises, calls, errorChannel>>
         [] j.job = "adopted" ->
            /\ microtasks' = Append(rest, Job("delete", p, 0))
            /\ UNCHANGED <<bulks, nonEmptyBulks, pendingMessages,
                           createIndexPromises, promises, calls, errorChannel>>
         [] j.job = "delete" ->
            \* .then(() => this.createIndexPromises.delete(index))
            /\ createIndexPromises' = Remove(createIndexPromises, P.index)
            /\ microtasks' = rest
            /\ UNCHANGED <<bulks, nonEmptyBulks, pendingMessages, promises,
                           calls, errorChannel>>
         [] j.job = "logThen" ->
            \* log: .then((b2) => { addToBulk(index, b2, message, type);
            \*                      pendingMessages-- })
            IF P.state = "fulfilled" THEN
                /\ nonEmptyBulks' = nonEmptyBulks \cup {calls[c].index}
                /\ bulks' = [bulks EXCEPT ![P.value] =
                                AddToBulk(@, calls[c].index, c, calls[c].type)]
                /\ pendingMessages' = Decrement(pendingMessages)
                /\ calls' = [calls EXCEPT ![c].status = "appended"]
                /\ microtasks' = rest
                /\ UNCHANGED <<createIndexPromises, promises, errorChannel>>
            ELSE
                /\ microtasks' = Append(rest, Job("logCatch", p, c))
                /\ UNCHANGED <<bulks, nonEmptyBulks, pendingMessages,
                               createIndexPromises, promises, calls, errorChannel>>
         [] j.job = "logCatch" ->
            \* log: .catch(e => { handleError(e); pendingMessages-- })
            /\ errorChannel' = HandleError("CantCreateIndice", c)
            /\ pendingMessages' = Decrement(pendingMessages)
            /\ calls' = [calls EXCEPT ![c].status = "failed"]
            /\ microtasks' = rest
            /\ UNCHANGED <<bulks, nonEmptyBulks, createIndexPromises, promises>>
    /\ hist' = <<>>
    /\ UNCHANGED loggingVars
    /\ UNCHANGED <<now, indexSplitInterval, esVersion, inits, dying, autoFlushTID,
                   cleanUpTID, cleanUpDue, indexBulks, sent, rounds, closePc>>

\* ------------------------------------------------------ HTTP responses
\* the response to GET / sent by initialize()
InitResponse(i, resp) ==
    /\ microtasks = <<>>
    /\ inits[i].state = "inflight"
    /\ IF resp.status = 200 /\ ParseVersion(resp.number) # Undefined
       THEN /\ esVersion' = ParseVersion(resp.number)
            /\ inits' = [inits EXCEPT ![i] = [state |-> "ok", resp |-> resp]]
            /\ UNCHANGED errorChannel
       ELSE /\ errorChannel' = HandleError("Connection", i)
            /\ inits' = [inits EXCEPT ![i] = [state |-> "failed", resp |-> resp]]
            /\ UNCHANGED esVersion
    /\ hist' = <<>>
    /\ UNCHANGED loggingVars
    /\ UNCHANGED <<now, indexSplitInterval, dying, autoFlushTID, cleanUpTID,
                   cleanUpDue, bulks, indexBulks, nonEmptyBulks, pendingMessages,
                   createIndexPromises, promises, microtasks, sent, rounds,
                   calls, closePc>>

\* the response to the GET <index>/_mapping or the PUT <index> of createIndex
ProvisionResponse(p, status) ==
    /\ microtasks = <<>>
    /\ p \in DOMAIN promises
    /\ promises[p].req # "none"
    /\ LET P == promises[p]
           b == Len(bulks) + 1
           resolveESBulk(obsolete) ==
               /\ bulks' = Append(bulks, NewBulk(obsolete))
               /\ indexBulks' = Put(indexBulks, P.index, b)
               /\ promises' = [promises EXCEPT ![p].req = "none",
                                               ![p].settling = "fulfilled",
                                               ![p].value = b]
               /\ microtasks' = <<Job("settle", p, 0)>>
           reject ==
               /\ promises' = [promises EXCEPT ![p].req = "none",
                                               ![p].settling = "rejected"]
               /\ microtasks' = <<Job("settle", p, 0)>>
               /\ UNCHANGED <<bulks, indexBulks>>
       IN
       IF P.req = "GET" THEN
           IF status = 200 THEN resolveESBulk(ExistingObsolete(P.index))
           ELSE IF MappingMissing(status) THEN
               /\ promises' = [promises EXCEPT ![p].req = "PUT",
                                               ![p].createAfter = <<status>>,
                                               ![p].issued = Append(@, "PUT")]
               /\ UNCHANGED <<bulks, indexBulks, microtasks>>
           ELSE reject
       ELSE
           IF status = 200 THEN resolveESBulk(DefaultObsolete) ELSE reject
    /\ hist' = <<>>
    /\ UNCHANGED loggingVars
    /\ UNCHANGED <<now, indexSplitInterval, esVersion, inits, dying, autoFlushTID,
                   cleanUpTID, cleanUpDue, nonEmptyBulks, pendingMessages,
                   createIndexPromises, sent, rounds, calls, closePc, errorChannel>>

\* the response to a POST /_bulk of flush; Promise.all settles the round
BulkResponse(t, resp) ==
    /\ microtasks = <<>>
    /\ t \in sent
    /\ t.status = "inflight"
    /\ LET r == t.round
           others == {u \in sent : u.round = r /\ u # t}
           state == IF rounds[r].state # "pending" THEN rounds[r].state
                    ELSE IF BulkRejects(resp) THEN "rejected"
                    ELSE IF \A u \in others : u.status = "ok" THEN "resolved"
                    ELSE "pending"
       IN
       /\ sent' = (sent \ {t}) \cup
              {[t EXCEPT !.status = IF BulkRejects(resp) THEN "failed" ELSE "ok"]}
       /\ rounds' = [rounds EXCEPT ![r].state = state]
       /\ closePc' = IF rounds[r].origin = "close" /\ closePc = "flushing"
                     THEN (CASE state = "resolved" -> "done"
                             [] state = "rejected" -> "failed"
                             [] OTHER -> closePc)
                     ELSE closePc
    /\ hist' = <<>>
    /\ UNCHANGED loggingVars
    /\ UNCHANGED <<now, indexSplitInterval, esVersion, inits, dying, autoFlushTID,
                   cleanUpTID, cleanUpDue, bulks, indexBulks, nonEmptyBulks,
                   pendingMessages, createIndexPromises, promises, microtasks,
                   calls, errorChannel>>

\* --------------------------------------------------------------- timers
\* a sweep that drops an entry as soon as its obsolete time is behind the clock
KeptBulks_NoGrace ==
    {i \in DOMAIN indexBulks : ~(bulks[indexBulks[i]].obsolete < now)}

\* cleanUpOldIndexBulks: the entries that stay in indexBulks
KeptBulks ==
    {i \in DOMAIN indexBulks :
        ~(bulks[indexBulks[i]].obsolete < now - indexSplitInterval)}

\* a timer that is armed and due fires: the callback of autoFlush's
\* setInterval, or the one of cleanUpOldIndexBulks' setTimeout
Timeout(tid) ==
    /\ microtasks = <<>>
    /\ IF tid = "autoFlush" THEN
           /\ autoFlushTID = "armed"
           /\ DoFlush("timer")
           /\ autoFlushTID' = AutoFlush(autoFlushTID)
           /\ UNCHANGED <<cleanUpTID, cleanUpDue, indexBulks>>
       ELSE
           /\ cleanUpTID = "armed"
           /\ now >= cleanUpDue
           /\ IF indexSplitInterval > 0
              THEN /\ cleanUpDue' = now + indexSplitInterval
                   /\ indexBulks' = [i \in KeptBulks |-> indexBulks[i]]
                   /\ UNCHANGED cleanUpTID
              ELSE /\ cleanUpTID' = "undefined"
                   /\ UNCHANGED <<cleanUpDue, indexBulks>>
           /\ UNCHANGED <<autoFlushTID, bulks, nonEmptyBulks, sent, rounds>>
    /\ hist' = <<>>
    /\ UNCHANGED loggingVars
    /\ UNCHANGED <<now, indexSplitInterval, esVersion, inits, dying,
                   pendingMessages, createIndexPromises, promises, microtasks,
                   calls, closePc, errorChannel>>

\* close: one turn of `while (pendingMessages > 0) await <100 ms>`, then flush
ClosePoll ==
    /\ microtasks = <<>>
    /\ closePc = "polling"
    /\ IF CloseWaits
       THEN UNCHANGED <<bulks, nonEmptyBulks, sent, rounds, closePc>>
       ELSE CloseFlush
    /\ hist' = <<>>
    /\ UNCHANGED loggingVars
    /\ UNCHANGED <<now, indexSplitInterval, esVersion, inits, dying, autoFlushTID,
                   cleanUpTID, cleanUpDue, indexBulks, pendingMessages,
                   createIndexPromises, promises, microtasks, calls, errorChannel>>

\* the clock advances; with index splitting off nothing reads the clock but
\* the `obsolete` field, which only cleanUpOldIndexBulks reads
Tick ==
    /\ microtasks = <<>>
    /\ indexSplitInterval > 0
    /\ now < MaxTime
    /\ now' = now + 1
    /\ hist' = <<>>
    /\ UNCHANGED loggingVars
    /\ UNCHANGED <<indexSplitInterval, esVersion, inits, dying, autoFlushTID,
                   cleanUpTID, cleanUpDue, bulks, indexBulks, nonEmptyBulks,
                   pendingMessages, createIndexPromises, promises, microtasks,
                   sent, rounds, calls, closePc, errorChannel>>

Next ==
    \/ Initialize
    \/ \E base \in Bases, props \in PropsArgs, type \in Types : Log(base, props, type)
    \/ Flush
    \/ Close
    \/ RunMicrotask
    \/ \E i \in DOMAIN inits, resp \in InfoResponses : InitResponse(i, resp)
    \/ \E p \in DOMAIN promises, status \in ProvisionStatuses : ProvisionResponse(p, status)
    \/ \E t \in sent, resp \in BulkResponses : BulkResponse(t, resp)
    \/ \E tid \in {"autoFlush", "cleanUp"} : Timeout(tid)
    \/ ClosePoll
    \/ Tick

Spec == Init /\ [][Next]_vars

\* The steps of Next, with a smaller budget of calls of the user and a
\* shorter run of the clock.
NextLive ==
    \/ Len(inits) < MaxLiveInit /\ Initialize
    \/ /\ Len(calls) < MaxLiveLogs
       /\ \E base \in Bases, props \in PropsArgs, type \in Types : Log(base, props, type)
    \/ /\ Cardinality({r \in DOMAIN rounds : rounds[r].origin = "user"}) < MaxLiveFlush
       /\ Flush
    \/ Close
    \/ RunMicrotask
    \/ \E i \in DOMAIN inits, resp \in InfoResponses : InitResponse(i, resp)
    \/ \E p \in DOMAIN promises, status \in ProvisionStatuses : ProvisionResponse(p, status)
    \/ \E t \in sent, resp \in BulkResponses : BulkResponse(t, resp)
    \/ \E tid \in {"autoFlush", "cleanUp"} : Timeout(tid)
    \/ ClosePoll
    \/ now < MaxLiveTime /\ Tick

\* The Logger with the scheduling the runtime and the transport guarantee: a
\* queued reaction runs, every request is answered, fails or times out
\* (esRequestTimeout), and the 100 ms timer of close's polling loop fires.
SpecLive ==
    /\ Init /\ [][NextLive]_vars
    /\ WF_vars(RunMicrotask)
    /\ WF_vars(\E p \in DOMAIN promises, status \in ProvisionStatuses :
                   ProvisionResponse(p, status))
    /\ WF_vars(\E t \in sent, resp \in BulkResponses : BulkResponse(t, resp))
    /\ WF_vars(ClosePoll)

\* ===================================================== class Logging
\* the variables of Logger; Logging shares the clock with it
loggerVars == <<indexSplitInterval, esVersion, inits, dying, autoFlushTID,
                cleanUpTID, cleanUpDue, bulks, indexBulks, nonEmptyBulks,
                pendingMessages, createIndexPromises, promises, microtasks, sent,
                rounds, calls, closePc, errorChannel, hist>>

\* Logging.log, the branch that appends: the ESIndex object after the call
LoggingAppend(e, index, message, type) ==
    [e EXCEPT !.bulk = @ \o <<<<"index", index, type>>, <<"doc", message>>>>,
              !.bulkSize = @ + 1]

\* elasticPush: the objects of todo for which a transmission is issued
PushTargets == {k \in DOMAIN todo : esindexes[todo[k]].bulkSize > 0}

\* elasticPush: the test of the answer to POST /_bulk
PushRejects(r) == ~(r.status = 200 /\ r.errors = "false")

\* setTimeout(() => this.elasticPush(), ...) in the reaction of round r:
\* bulkTID is overwritten, the timer it named before stays as it is
ArmPushTimer(r, armed) ==
    /\ bulkTID' = r
    /\ pushTimers' = armed \cup {r}

\* elasticPush() called from a timer or from the signal handler; `armed` are
\* the timers armed when it is called.  When no transmission is issued the
\* promise is resolved at once and its reaction, which arms the next timer,
\* runs at the end of the same task.
ElasticPush(origin, armed) ==
    LET r == Len(pushes) + 1
        cleared == armed \ {bulkTID}                 \* clearTimeout(this.bulkTID)
    IN
    /\ posted' = posted \cup
           {[round |-> r, object |-> todo[k], payload |-> esindexes[todo[k]].bulk,
             status |-> "inflight"] : k \in PushTargets}
    /\ esindexes' = [o \in DOMAIN esindexes |->
                        IF \E k \in PushTargets : todo[k] = o
                        THEN [esindexes[o] EXCEPT !.bulk = <<>>, !.bulkSize = 0]
                        ELSE esindexes[o]]
    /\ todo' = <<>>
    /\ pushes' = Append(pushes,
           [origin |-> origin,
            state |-> IF PushTargets = {} THEN "resolved" ELSE "pending",
            size |-> Cardinality(PushTargets)])
    /\ IF PushTargets = {}
       THEN ArmPushTimer(r, cleared)
       ELSE /\ pushTimers' = cleared
            /\ UNCHANGED bulkTID

\* log: the reaction of promiseIndex.then: a new ESIndex object is made,
\* registered and pushed on todo, and log is called again
LoggingInsert(index, message, type) ==
    LET o == Len(esindexes) + 1
        e == [bulk |-> <<>>, bulkSize |-> 0, created |-> now]
    IN
    /\ esindexes' = Append(esindexes,
           IF loggingDying THEN e ELSE LoggingAppend(e, index, message, type))
    /\ indexes' = Put(indexes, index, o)
    /\ todo' = Append(todo, o)

\* Logging.log(index, message, mappings, type); the message is the call's number
LoggingLog(base, mappings, type) ==
    /\ loggingLogs < MaxLoggingLogs
    /\ loggingLogs' = loggingLogs + 1
    /\ LET index == <<base>>
           message == loggingLogs + 1
       IN
       IF loggingDying THEN
           UNCHANGED <<esindexes, loggingTasks, creations>>
       ELSE IF index \in DOMAIN indexes THEN
           /\ esindexes' = [esindexes EXCEPT ![indexes[index]] =
                                LoggingAppend(@, index, message, type)]
           /\ UNCHANGED <<loggingTasks, creations>>
       ELSE IF mappings = NoProps THEN
           \* Promise.resolve().then(...)
           /\ loggingTasks' = Append(loggingTasks,
                  [job |-> "insert", index |-> index, message |-> message,
                   type |-> type])
           /\ UNCHANGED <<esindexes, creations>>
       ELSE
           \* createIndex: HEAD <index>/_mapping/<type> is sent
           /\ creations' = Append(creations,
                  [index |-> index, message |-> message, type |-> type,
                   req |-> "HEAD"])
           /\ UNCHANGED <<esindexes, loggingTasks>>
    /\ UNCHANGED <<now, loggerVars, loggingDying, cleanUpInterval, indexes, todo,
                   bulkTID, pushTimers, cleanDue, posted, pushes, loggingErrors>>

\* the reaction at the head of the queue runs
LoggingRunTask ==
    /\ loggingTasks # <<>>
    /\ loggingTasks' = Tail(loggingTasks)
    /\ LET j == Head(loggingTasks) IN
       IF j.job = "arm"
       THEN /\ ArmPushTimer(j.round, pushTimers)
            /\ UNCHANGED <<esindexes, indexes, todo>>
       ELSE /\ LoggingInsert(j.index, j.message, j.type)
            /\ UNCHANGED <<bulkTID, pushTimers>>
    /\ UNCHANGED <<now, loggerVars, loggingDying, cleanUpInterval, cleanDue,
                   creations, posted, pushes, loggingLogs, loggingErrors>>

\* the answer to the HEAD or to the PUT of createIndex; the reaction of
\* log runs in the same task
CreateIndexResponse(k, status) ==
    /\ loggingTasks = <<>>
    /\ k \in DOMAIN creations
    /\ creations[k].req \in {"HEAD", "PUT"}
    /\ LET C == creations[k]
           created ==
               /\ creations' = [creations EXCEPT ![k].req = "done"]
               /\ LoggingInsert(C.index, C.message, C.type)
               /\ UNCHANGED loggingErrors
           failed ==
               /\ creations' = [creations EXCEPT ![k].req = "failed"]
               /\ loggingErrors' = loggingErrors + 1
               /\ UNCHANGED <<esindexes, indexes, todo>>
       IN
       IF status = 200 THEN created
       ELSE IF C.req = "HEAD" /\ status = 404 THEN
           /\ creations' = [creations EXCEPT ![k].req = "PUT"]
           /\ UNCHANGED <<esindexes, indexes, todo, loggingErrors>>
       ELSE failed
    /\ UNCHANGED <<now, loggerVars, loggingDying, cleanUpInterval, bulkTID,
                   pushTimers, cleanDue, loggingTasks, posted, pushes, loggingLogs>>

\* an armed elasticPush timer fires
PushTimeout(h) ==
    /\ loggingTasks = <<>>
    /\ h \in pushTimers
    /\ Len(pushes) < MaxPush
    /\ ElasticPush("timer", pushTimers \ {h})
    /\ UNCHANGED <<now, loggerVars, loggingDying, cleanUpInterval, indexes,
                   cleanDue, loggingTasks, creations, loggingLogs, loggingErrors>>

\* SIGINT or SIGTERM: die = () => { this.elasticPush(); this.dying = true }
Die ==
    /\ loggingTasks = <<>>
    /\ Len(pushes) < MaxPush
    /\ Cardinality({r \in DOMAIN pushes : pushes[r].origin = "signal"}) < MaxSignals
    /\ ElasticPush("signal", pushTimers)
    /\ loggingDying' = TRUE
    /\ UNCHANGED <<now, loggerVars, cleanUpInterval, indexes, cleanDue,
                   loggingTasks, creations, loggingLogs, loggingErrors>>

\* the answer to a POST /_bulk of elasticPush: Promise.all settles the round
\* at the first failure or at the last success, and the reaction arms a timer
PushResponse(t, resp) ==
    /\ loggingTasks = <<>>
    /\ t \in posted
    /\ t.status = "inflight"
    /\ LET r == t.round
           others == {u \in posted : u.round = r /\ u # t}
           state == IF pushes[r].state # "pending" THEN pushes[r].state
                    ELSE IF PushRejects(resp) THEN "rejected"
                    ELSE IF \A u \in others : u.status = "ok" THEN "resolved"
                    ELSE "pending"
       IN
       /\ posted' = (posted \ {t}) \cup
              {[t EXCEPT !.status = IF PushRejects(resp) THEN "failed" ELSE "ok"]}
       /\ pushes' = [pushes EXCEPT ![r].state = state]
       /\ IF pushes[r].state = "pending" /\ state # "pending"
          THEN ArmPushTimer(r, pushTimers)
          ELSE UNCHANGED <<bulkTID, pushTimers>>
       /\ loggingErrors' = IF pushes[r].state = "pending" /\ state = "rejected"
                           THEN loggingErrors + 1 ELSE loggingErrors
    /\ UNCHANGED <<now, loggerVars, loggingDying, cleanUpInterval, indexes,
                   esindexes, todo, cleanDue, loggingTasks, creations, loggingLogs>>

\* the cleanUp timer fires: cleanUp() arms it again and deletes the old indexes
CleanUp ==
    /\ loggingTasks = <<>>
    /\ now >= cleanDue
    /\ cleanDue' = now + cleanUpInterval
    /\ indexes' = [i \in {x \in DOMAIN indexes :
                              ~(esindexes[indexes[x]].created < now - cleanUpInterval)}
                      |-> indexes[i]]
    /\ UNCHANGED <<now, loggerVars, loggingDying, cleanUpInterval, esindexes, todo,
                   bulkTID, pushTimers, loggingTasks, creations, posted, pushes,
                   loggingLogs, loggingErrors>>

\* the clock advances between two tasks
LoggingTick ==
    /\ loggingTasks = <<>>
    /\ now < MaxLoggingTime
    /\ now' = now + 1
    /\ UNCHANGED <<loggerVars, loggingVars>>

NextLogging ==
    \/ \E base \in Bases, mappings \in Mappings, type \in Types :
           LoggingLog(base, mappings, type)
    \/ LoggingRunTask
    \/ \E k \in DOMAIN creations, status \in ProvisionStatuses :
           CreateIndexResponse(k, status)
    \/ \E h \in pushTimers : PushTimeout(h)
    \/ Die
    \/ \E t \in posted, resp \in BulkResponses : PushResponse(t, resp)
    \/ CleanUp
    \/ LoggingTick

InitLogging == Init /\ indexSplitInterval = 0

SpecLogging == InitLogging /\ [][NextLogging]_vars

\* ------------------------------------------------------------ claims
\* vocabulary of the claims
Registered(i) == i \in DOMAIN indexBulks
RecordCount(i) == bulks[indexBulks[i]].bulkSize
Bodies(payload) == {payload[k][2] : k \in {n \in DOMAIN payload : payload[n][1] = "doc"}}
Handed(c) == \E t \in sent : c \in Bodies(t.payload)
LastCall == IF hist = <<>> THEN <<"none", 0>> ELSE hist[Len(hist)]
Quiescent ==
    \/ closePc \in {"done", "failed"}
    \/ LastCall[1] = "flush" /\ pendingMessages = 0
InFlight(i) == {p \in DOMAIN promises : promises[p].index = i /\ promises[p].req # "none"}
Issued(i, what) ==
    {<<p, k>> \in (DOMAIN promises) \X (1..2) :
        /\ promises[p].index = i
        /\ k \in DOMAIN promises[p].issued
        /\ promises[p].issued[k] = what}
FirstUse(i) == \A p \in DOMAIN promises : promises[p].index = i => promises[p].state = "pending"
Names == {promises[p].index : p \in DOMAIN promises}

\* C1: once the instance is quiescent (close has returned, or a flush has just
\* run with no log call outstanding), every record that was appended to a
\* buffer has been handed to a bulk transmission: no record is dropped by a
\* path other than a failed transmission.
C1_RecordConservation ==
    Quiescent =>
        \A c \in DOMAIN calls : calls[c].status = "appended" => Handed(c)

\* C2: at most one provisioning request (existence check or create call) is in
\* flight for a name, and while the first use of a name has not settled the
\* existence check and the create call have each been issued at most once for
\* it, however many log calls wait for it.
C2_ProvisioningDedup ==
    \A i \in Names :
        /\ Cardinality(InFlight(i)) <= 1
        /\ FirstUse(i) => /\ Cardinality(Issued(i, "GET")) <= 1
                          /\ Cardinality(Issued(i, "PUT")) <= 1

\* C2 witness: two log calls wait for one provisioning whose create call is in
\* flight.
C2_Witness ==
    \E p \in DOMAIN promises :
        /\ promises[p].req = "PUT"
        /\ Len(promises[p].reactions) >= 2
        /\ pendingMessages >= 2

\* C3: a name is in the pending-set (nonEmptyBulks) if and only if the
\* registry (indexBulks) holds a buffer for it whose record count is above 0.
C3_PendingSetInvariant ==
    \A i \in nonEmptyBulks \cup DOMAIN indexBulks :
        i \in nonEmptyBulks <=> (Registered(i) /\ RecordCount(i) > 0)

\* C4: with bucketing off on an initialized Logger, two log calls without
\* schema to the same name followed at once by flush give a round of exactly
\* one bulk transmission whose body holds the record lines of both records.
C4_TwoLogsThenFlush ==
    (/\ Len(hist) = 3
     /\ hist[1][1] = "log" /\ hist[2][1] = "log" /\ hist[3][1] = "flush"
     /\ indexSplitInterval = 0
     /\ \A k \in 1..2 : /\ calls[hist[k][2]].status # "ignored"
                        /\ calls[hist[k][2]].props = NoProps
     /\ calls[hist[1][2]].base = calls[hist[2][2]].base)
    => /\ rounds[hist[3][2]].size = 1
       /\ \E t \in sent : /\ t.round = hist[3][2]
                          /\ {hist[1][2], hist[2][2]} \subseteq Bodies(t.payload)

\* C5: the final flush of close starts only when pendingMessages is 0, and
\* from then on no log call is still waiting for its provisioning: each has
\* had its record appended or its failure reported.
C5_CloseWaitsForPending ==
    /\ \A r \in DOMAIN rounds :
           rounds[r].origin = "close" => rounds[r].pendingAtStart = 0
    /\ closePc \in {"flushing", "done", "failed"} =>
           \A c \in DOMAIN calls : calls[c].status # "awaiting"

\* C5 witness: close was called while a log call awaited its provisioning and
\* has waited for it: the call's record is now in its buffer, nothing is
\* pending, and the final flush has not started yet.
C5_Witness ==
    /\ closePc = "polling"
    /\ pendingMessages = 0
    /\ \E c \in DOMAIN calls :
           /\ calls[c].status = "appended"
           /\ calls[c].p # 0
           /\ ~Handed(c)

\* C6: the promise of a flush round settles only after every transmission of
\* the round has settled, and it never rejects.
C6_FlushSettlesAfterAll ==
    \A r \in DOMAIN rounds :
        rounds[r].state # "pending" =>
            /\ \A t \in sent : t.round = r => t.status # "inflight"
            /\ rounds[r].state = "resolved"

\* C7: for a failed bulk transmission the error channel has received exactly
\* one error, and none of its records is in a buffer or in another
\* transmission.
C7_FailureReportedOnce ==
    \A t \in sent :
        t.status = "failed" =>
            /\ CopiesIn(<<"Transmission", t.round, t.index>>, errorChannel) = 1
            /\ \A u \in sent \ {t} : Bodies(u.payload) \cap Bodies(t.payload) = {}
            /\ \A b \in DOMAIN bulks : Bodies(bulks[b].bulk) \cap Bodies(t.payload) = {}

\* C8: while the instance is not closing, records waiting in a registered
\* buffer are flushed by the recurring timer: the flush timer is armed.
C8_TimerFlushes ==
    \A i \in DOMAIN indexBulks :
        (~dying /\ RecordCount(i) > 0) => autoFlushTID = "armed"

\* C9: right after a flush the pending-set is empty and every registered
\* buffer has record count 0, so a second flush issues no transmission.
C9_SecondFlushEmpty ==
    LastCall[1] = "flush" =>
        /\ nonEmptyBulks = {}
        /\ \A i \in DOMAIN indexBulks : RecordCount(i) = 0
        /\ FlushTargets = {}
        /\ (Len(hist) >= 2 /\ hist[Len(hist) - 1][1] = "flush")
               => rounds[LastCall[2]].size = 0

\* C9 witness: a flush that issued a transmission is followed at once by a
\* second flush.
C9_Witness ==
    /\ Len(hist) >= 2
    /\ LastCall[1] = "flush"
    /\ hist[Len(hist) - 1][1] = "flush"
    /\ rounds[hist[Len(hist) - 1][2]].size > 0

\* C10: a log call made while the instance is uninitialized or dying changes
\* neither the registry, the buffers, the pending-set, the pending-operation
\* counter nor the provisioning map, and sends nothing.
C10_LogNoOp ==
    [][(Len(calls') = Len(calls) + 1 /\ (dying \/ esVersion = Undefined))
         => UNCHANGED <<indexBulks, bulks, nonEmptyBulks, pendingMessages,
                        createIndexPromises, promises, microtasks, sent>>]_vars

\* C10 witness: on an initialized instance that holds a buffer, a log call
\* appended its record and a later one, made while dying, was ignored.
C10_Witness ==
    /\ dying
    /\ esVersion # Undefined
    /\ DOMAIN indexBulks # {}
    /\ \E c, d \in DOMAIN calls :
           /\ c < d
           /\ calls[c].status = "appended"
           /\ calls[d].status = "ignored"

\* a response to initialize that carries a server version: status 200 and a
\* version number of three dotted numbers
VersionResponse(resp) == resp.status = 200 /\ resp.number # "unknown"

\* C11: an initialize whose request fails, is answered with a status other
\* than 200 or carries no parseable version is rejected and sets no server
\* version; the version is set only by an initialize that was answered with
\* status 200 and a parseable version, and as long as no version is set
\* every log call is ignored.
C11_InitFailureKeepsUninitialized ==
    /\ \A i \in DOMAIN inits :
           inits[i].state # "inflight"
               => (inits[i].state = "ok" <=> VersionResponse(inits[i].resp))
    /\ esVersion # Undefined <=> \E i \in DOMAIN inits : inits[i].state = "ok"
    /\ esVersion = Undefined
           => /\ \A c \in DOMAIN calls : calls[c].status = "ignored"
              /\ indexBulks = <<>> /\ promises = <<>> /\ sent = {}

\* C11 witness: one initialize failed and a log call was ignored, then an
\* initialize succeeded and a log call appended its record.
C11_Witness ==
    /\ \E i, j \in DOMAIN inits :
           /\ i < j
           /\ inits[i].state = "failed"
           /\ inits[j].state = "ok"
    /\ \E c, d \in DOMAIN calls :
           /\ c < d
           /\ calls[c].status = "ignored"
           /\ BagIn(<<"NotInitialized", c>>, errorChannel)
           /\ calls[d].status = "appended"

\* C12: once an initialize has set the server version, no step changes it
\* (a further initialize answered with another version included).
C12_VersionImmutable ==
    [][esVersion # Undefined => esVersion' = esVersion]_vars

\* the log call made by the step, if the step is a log call
NewCall == calls'[Len(calls')]
IsLogStep == Len(calls') = Len(calls) + 1

\* C13: a failed provisioning leaves nothing behind.  Once the task in which
\* a provisioning settled is over, its entry is gone from the in-flight map;
\* a provisioning that fails leaves the name without a buffer; and no log
\* call is attached to a provisioning that has already failed: a log call with
\* a schema for a name whose provisioning failed starts a new provisioning
\* with its own existence check (or joins one started since, still pending).
C13_FailureDoesNotPoison ==
    /\ [](microtasks = <<>>
            => \A i \in DOMAIN createIndexPromises :
                   promises[createIndexPromises[i]].state = "pending")
    /\ [][\A p \in DOMAIN promises :
              (promises[p].state = "pending" /\ promises'[p].state = "rejected")
                  => promises[p].index \notin DOMAIN indexBulks']_vars
    /\ [][(IsLogStep /\ NewCall.p # 0)
              => /\ NewCall.p \in DOMAIN promises
                     => promises[NewCall.p].state # "rejected"
                 /\ (/\ NewCall.props # NoProps
                     /\ (NewCall.index \in DOMAIN createIndexPromises
                            => promises[createIndexPromises[NewCall.index]].state
                                   = "rejected")
                     /\ \E q \in DOMAIN promises :
                            /\ promises[q].index = NewCall.index
                            /\ promises[q].state = "rejected")
                     => /\ NewCall.p \notin DOMAIN promises
                        /\ promises'[NewCall.p].issued = <<"GET">>]_vars

\* C13 witness: the provisioning of a name failed, its caller was told, and a
\* later log call for the same name started a provisioning of its own.
C13_Witness ==
    \E p, q \in DOMAIN promises :
        /\ p < q
        /\ promises[p].index = promises[q].index
        /\ promises[p].state = "rejected"
        /\ promises[q].issued # <<>>
        /\ \E c, d \in DOMAIN calls :
               /\ calls[c].p = p /\ calls[c].status = "failed"
               /\ calls[d].p = q

\* the log call that started provisioning p
Starter(p) == CHOOSE c \in DOMAIN calls :
                  /\ calls[c].p = p
                  /\ \A d \in DOMAIN calls : calls[d].p = p => c <= d

\* C14: a create call is sent only by a provisioning that was started with a
\* schema and whose existence check was answered 404, after that check; and
\* once a provisioning of a name has succeeded, no later provisioning of
\* that name sends a create call.
C14_CreateOnlyAfter404 ==
    \A p \in DOMAIN promises :
        /\ promises[p].issued \in {<<>>, <<"GET">>, <<"GET", "PUT">>}
        /\ calls[Starter(p)].props = NoProps => promises[p].issued = <<>>
        /\ promises[p].issued = <<"GET", "PUT">> <=> promises[p].createAfter = <<404>>
        /\ promises[p].createAfter \in {<<>>, <<404>>}
        /\ promises[p].state = "fulfilled"
               => \A q \in DOMAIN promises :
                      (q > p /\ promises[q].index = promises[p].index)
                          => promises[q].issued # <<"GET", "PUT">>

\* C14 witness: a name was created after a 404 and a later log call to that
\* name appended without any request.
C14_Witness ==
    \E p \in DOMAIN promises :
        /\ promises[p].issued = <<"GET", "PUT">>
        /\ promises[p].state = "fulfilled"
        /\ \E c \in DOMAIN calls :
               /\ c > Starter(p)
               /\ calls[c].index = promises[p].index
               /\ calls[c].p = 0
               /\ calls[c].status = "appended"

\* the places where the record of log call c is held: in buffers, and in the
\* payloads of transmissions
InBuffers(c) ==
    {<<b, k>> \in (DOMAIN bulks) \X (1..(2 * MaxLogs)) :
        k \in DOMAIN bulks[b].bulk /\ bulks[b].bulk[k] = <<"doc", c>>}
InPayloads(c) ==
    {<<t, k>> \in sent \X (1..(2 * MaxLogs)) :
        k \in DOMAIN t.payload /\ t.payload[k] = <<"doc", c>>}
Callers(p) == {c \in DOMAIN calls : calls[c].p = p}

\* C15: the log calls that received the same provisioning share its outcome.
\* Once the task in which it settled is over: if it succeeded, the record of
\* each of them is held exactly once, in the buffer the provisioning
\* registered or in a payload sent for that name; if it failed, none of their
\* records is held anywhere and the failure was reported exactly once for
\* each of them.  A provisioning failure is reported for no other call.
C15_RacersShareOutcome ==
    /\ microtasks = <<>> =>
           \A p \in DOMAIN promises : \A c \in Callers(p) :
               /\ promises[p].state = "fulfilled" =>
                      /\ calls[c].status = "appended"
                      /\ Cardinality(InBuffers(c)) + Cardinality(InPayloads(c)) = 1
                      /\ \A x \in InBuffers(c) : x[1] = promises[p].value
                      /\ \A x \in InPayloads(c) : x[1].index = promises[p].index
               /\ promises[p].state = "rejected" =>
                      /\ calls[c].status = "failed"
                      /\ InBuffers(c) = {} /\ InPayloads(c) = {}
                      /\ CopiesIn(<<"CantCreateIndice", c>>, errorChannel) = 1
    /\ \A c \in DOMAIN calls :
           BagIn(<<"CantCreateIndice", c>>, errorChannel)
               => /\ calls[c].p # 0
                  /\ promises[calls[c].p].state = "rejected"

\* C15 witness: two log calls shared a provisioning that failed and each was
\* told so, while a third call, provisioned on its own, appended its record.
C15_Witness ==
    /\ microtasks = <<>>
    /\ \E p \in DOMAIN promises :
           /\ promises[p].state = "rejected"
           /\ Cardinality(Callers(p)) = 2
           /\ \A c \in Callers(p) : calls[c].status = "failed"
    /\ \E q \in DOMAIN promises :
           /\ promises[q].state = "fulfilled"
           /\ \E c \in Callers(q) : InBuffers(c) # {}

\* the transmissions issued by the step, if the step is a flush round
IsFlushStep == Len(rounds') = Len(rounds) + 1
NewTransmissions == {t \in sent' : t.round = Len(rounds')}

\* C16: the step that issues the transmissions of a round takes the records
\* out of the buffers: after it the pending-set is empty and the buffer of
\* every name transmitted holds nothing.  The payload of a transmission never
\* changes afterwards, a record held in a payload is held in no buffer, and
\* no record is held in two payloads; so a record appended while a
\* transmission is in flight is sent by a later round only.
C16_FlushIsolation ==
    /\ [](\A c \in DOMAIN calls :
             /\ Cardinality(InPayloads(c)) <= 1
             /\ InPayloads(c) # {} => InBuffers(c) = {})
    /\ [][IsFlushStep =>
              /\ nonEmptyBulks' = {}
              /\ \A t \in NewTransmissions :
                     /\ t.payload = bulks[indexBulks[t.index]].bulk
                     /\ bulks'[indexBulks'[t.index]].bulk = <<>>
                     /\ bulks'[indexBulks'[t.index]].bulkSize = 0]_vars
    /\ [][\A t \in sent : \E u \in sent' :
              u.round = t.round /\ u.index = t.index /\ u.payload = t.payload]_vars

\* C16 witness: while a transmission for a name was in flight a record was
\* appended to the same name and sent by a later round.
C16_Witness ==
    \E t, u \in sent :
        /\ t.index = u.index
        /\ t.round < u.round
        /\ t.status = "inflight"
        /\ Bodies(t.payload) # {} /\ Bodies(u.payload) # {}

\* the flush rounds started by close
CloseRounds == {r \in DOMAIN rounds : rounds[r].origin = "close"}

\* C17: from the call of close on the instance is dying; afterwards no
\* retention sweep runs (no buffer leaves the registry, the sweep timer is
\* not re-armed) and no flush round is started by a timer; the instance itself
\* starts exactly one flush round, the final flush of close, at a moment when
\* the pending-operation counter is zero, and close does not return before.
C17_ShutdownSequence ==
    /\ [](dying <=> closePc # "idle")
    /\ [](Cardinality(CloseRounds) =
              (IF closePc \in {"flushing", "done", "failed"} THEN 1 ELSE 0))
    /\ [][dying =>
              /\ DOMAIN indexBulks \subseteq DOMAIN indexBulks'
              /\ cleanUpDue' = cleanUpDue
              /\ cleanUpTID' # "armed" /\ autoFlushTID' # "armed"]_vars
    /\ [][(IsFlushStep /\ dying') =>
              /\ rounds'[Len(rounds')].origin \in {"user", "close"}
              /\ rounds'[Len(rounds')].origin = "close" => pendingMessages = 0]_vars

\* C17 witness: close has returned after its final flush sent records, a log
\* call was pending when close was called, and the time at which the sweep
\* timer was due has passed without a sweep.
C17_Witness ==
    /\ closePc = "done"
    /\ indexSplitInterval > 0
    /\ now >= cleanUpDue
    /\ \E r \in CloseRounds : rounds[r].size > 0 /\ r = Len(rounds)
    /\ \E c \in DOMAIN calls : calls[c].p # 0 /\ promises[calls[c].p].issued # <<>>
                                 /\ InPayloads(c) # {}
                                 /\ \A x \in InPayloads(c) : x[1].round \in CloseRounds

\* the log calls that found the buffer of their name registered
Direct(c) == calls[c].p = 0 /\ calls[c].status = "appended"

\* C18: of two log calls to the same name that both found its buffer
\* registered, the record of the earlier call stands before the record of the
\* later one: in the buffer, in a payload that holds both, and across
\* payloads (the earlier record is sent by the same or an earlier round, and
\* is not left in the buffer when the later one is sent).
C18_AppendOrder ==
    \A c, d \in DOMAIN calls :
        (c < d /\ Direct(c) /\ Direct(d) /\ calls[c].index = calls[d].index)
            => /\ \A x \in InBuffers(c), y \in InBuffers(d) :
                      x[1] = y[1] /\ x[2] < y[2]
               /\ \A x \in InPayloads(c), y \in InPayloads(d) :
                      \/ x[1].round < y[1].round
                      \/ x[1] = y[1] /\ x[2] < y[2]
               /\ InPayloads(d) # {} => InBuffers(c) = {}

\* C18 witness: one payload holds the records of two log calls that both
\* found the buffer registered.
C18_Witness ==
    \E c, d \in DOMAIN calls :
        /\ c < d /\ Direct(c) /\ Direct(d)
        /\ \E x \in InPayloads(c), y \in InPayloads(d) : x[1] = y[1]

\* a step in which the retention sweep ran, and the obsolescence time of a
\* registered name
IsSweepStep == cleanUpDue' # cleanUpDue
ObsoleteOf(i) == bulks[indexBulks[i]].obsolete

\* without index splitting no sweep is armed and no name leaves the registry;
\* with it, names leave the registry in sweeps only
OnlySweepsRemove ==
    /\ [](indexSplitInterval = 0 => cleanUpTID # "armed")
    /\ [][~IsSweepStep => DOMAIN indexBulks \subseteq DOMAIN indexBulks']_vars
    /\ [][indexSplitInterval = 0 => ~IsSweepStep]_vars

\* C20: a sweep removes from the registry exactly the names whose
\* obsolescence time has passed when it runs, and keeps the others; without
\* index splitting no sweep is scheduled and no name is ever removed.
C20_SweepRemovesPassed ==
    /\ [][IsSweepStep =>
              DOMAIN indexBulks' = {i \in DOMAIN indexBulks : ~(ObsoleteOf(i) < now)}]_vars
    /\ OnlySweepsRemove

\* C20, amended: a sweep removes from the registry exactly the names whose
\* obsolescence time lies more than one split interval before the time of
\* the sweep; it keeps every other name, in particular every name whose
\* obsolescence time has not passed.  Without index splitting no sweep is
\* scheduled and no name is ever removed.
C20_SweepRemovesAged ==
    /\ [][IsSweepStep =>
              /\ DOMAIN indexBulks' =
                     {i \in DOMAIN indexBulks :
                         ~(ObsoleteOf(i) + indexSplitInterval < now)}
              /\ \A i \in DOMAIN indexBulks :
                     ObsoleteOf(i) >= now => i \in DOMAIN indexBulks']_vars
    /\ OnlySweepsRemove

\* C20 witness: the sweep has just run; it removed a buffer whose
\* obsolescence time was more than an interval old and kept one whose
\* obsolescence time had passed by less.
C20_Witness ==
    /\ indexSplitInterval > 0
    /\ cleanUpDue = now + indexSplitInterval
    /\ \E b \in DOMAIN bulks :
           /\ \A i \in DOMAIN indexBulks : indexBulks[i] # b
           /\ bulks[b].obsolete + indexSplitInterval < now
    /\ \E i \in DOMAIN indexBulks :
           /\ ObsoleteOf(i) < now
           /\ ObsoleteOf(i) + indexSplitInterval >= now

\* C19 (Logging.elasticPush): at most one elasticPush timer is armed; a timer
\* is armed only when every transmission of the rounds so far has settled;
\* and no round of elasticPush starts while a transmission of an earlier
\* round is unsettled, so every unsettled transmission belongs to the
\* latest round.
C19_PushTimerDiscipline ==
    /\ Cardinality(pushTimers) <= 1
    /\ \A t \in posted :
           t.status = "inflight" => /\ t.round = Len(pushes)
                                    /\ pushTimers = {}

\* C21: no step removes from the registry a name whose buffer holds records,
\* so every buffer that holds records stays registered, where flush finds it.
C21_SweepSparesUnflushed ==
    /\ [][\A i \in DOMAIN indexBulks :
              RecordCount(i) > 0 => i \in DOMAIN indexBulks']_vars
    /\ [](\A b \in DOMAIN bulks :
             bulks[b].bulkSize > 0 => \E i \in DOMAIN indexBulks : indexBulks[i] = b)

\* with index splitting: the name is the one log computes at this moment
Current(i) == indexSplitInterval > 0 /\ i[2] = now \div indexSplitInterval

\* C22: with index splitting, no step removes from the registry a name that
\* is the name log computes at that moment, whichever way its obsolescence
\* time was computed; and a name whose provisioning succeeded is never
\* provisioned again: every earlier provisioning of a name that is
\* provisioned again has failed.
C22_CurrentBucketKept ==
    /\ [][\A i \in DOMAIN indexBulks : Current(i) => i \in DOMAIN indexBulks']_vars
    /\ [](indexSplitInterval > 0 =>
             \A p, q \in DOMAIN promises :
                 (p < q /\ promises[p].index = promises[q].index)
                     => promises[p].state = "rejected")

\* C22 witness: the sweep has just run, later than one interval after the
\* start; it removed the buffer of an earlier bucket and kept the buffer of
\* the current bucket, whose obsolescence time, computed from the suffix, had
\* passed.
C22_Witness ==
    /\ cleanUpDue = now + indexSplitInterval
    /\ now > indexSplitInterval
    /\ \E i \in DOMAIN indexBulks :
           /\ Current(i)
           /\ ObsoleteOf(i) = i[2] * indexSplitInterval
           /\ ObsoleteOf(i) < now
    /\ \E p \in DOMAIN promises :
           /\ promises[p].state = "fulfilled"
           /\ promises[p].index \notin DOMAIN indexBulks

\* C23 (Logging): every ESIndex object that holds records is in the todo list,
\* so that the next round of elasticPush transmits them.
C23_BufferedIsTodo ==
    \A o \in DOMAIN esindexes :
        esindexes[o].bulkSize > 0 => \E k \in DOMAIN todo : todo[k] = o

\* the log calls that wait for a provisioning
Awaiting == {c \in DOMAIN calls : calls[c].status = "awaiting"}

\* C24: the pending-operation counter counts the log calls that wait for a
\* provisioning: it goes up by one when such a call is made and down by one
\* when the call's record is appended or its failure reported, which happens
\* once per call; it is never negative.  Once close is called the counter
\* reaches zero and close settles.
C24_CloseTerminates ==
    /\ [](pendingMessages = Cardinality(Awaiting) /\ pendingMessages >= 0)
    /\ [][\A c \in DOMAIN calls :
              calls[c].status # "awaiting" => calls'[c].status = calls[c].status]_vars
    /\ (dying ~> pendingMessages = 0)
    /\ (dying ~> closePc \in {"done", "failed"})

\* C24 witness: close has settled on an instance on which one log call had
\* waited for a provisioning that succeeded and another for one that failed.
C24_Witness ==
    /\ closePc \in {"done", "failed"}
    /\ pendingMessages = 0
    /\ \E c, d \in DOMAIN calls :
           /\ calls[c].p # 0 /\ calls[c].status = "appended"
           /\ calls[d].status = "failed"
    /\ \E r \in CloseRounds : rounds[r].size > 0

====
